---- MODULE Spec2Model ----
(***************************************************************************)
(* A model of streamlit_app.py of smartbites-dashboard: the loader           *)
(* (load_data), the seven aggregation functions (calculate_* ) and the       *)
(* control flow of main.  A table is a pandas DataFrame: a sequence of       *)
(* column labels, the index labels of its rows, and the rows as sequences    *)
(* of cells, one per column position.  Labels are sequences of one-character *)
(* strings so that renaming, lower-casing, stripping and lexical ordering    *)
(* are computed character by character.                                      *)
(***************************************************************************)
EXTENDS Integers, Sequences, FiniteSets, TLC

VARIABLES
    source,   \* the sheet Order_Data.xlsx, or that it cannot be read
    df,       \* the table of the caller: what load_data returned, as it is now
    pc,       \* where the run is
    out,      \* per aggregation function: not called, its return value, or its exception
    error,    \* the exception that ended the run, and the call that raised it
    driver    \* who runs the functions: main, a caller of one, or a caller of any

vars == <<source, df, pc, out, error, driver>>

(***************************************************************************)
(* Bounds of the model.                                                      *)
(***************************************************************************)
\* rows of the tables drawn row by row
MaxRows == 2
\* orders of one customer in the tables drawn customer by customer
MaxOrders == 22
\* length of the free-form column labels
MaxLabel == 3
\* rows of the tables of refunded, late and on-time orders
MaxRiskRows == 3

(***************************************************************************)
(* Generic helpers.                                                          *)
(***************************************************************************)
Range(s) == {s[i] : i \in 1..Len(s)}

RECURSIVE SumSeq(_)
SumSeq(s) == IF s = <<>> THEN 0 ELSE Head(s) + SumSeq(Tail(s))

SeqsUpTo(S, n) == UNION {[1..k -> S] : k \in 0..n}

Repeat(x, n) == [i \in 1..n |-> x]

(***************************************************************************)
(* Column labels.  c_*: the canonical names; x_*: the names of the Excel     *)
(* sheet, the keys of column_mapping; l_*: the same columns typed loosely    *)
(* (upper case, blanks), which only the lower/strip/replace rule repairs.    *)
(***************************************************************************)
c_ordernumber == <<"o","r","d","e","r","n","u","m","b","e","r">>
c_customerid == <<"c","u","s","t","o","m","e","r","i","d">>
c_customer == <<"c","u","s","t","o","m","e","r">>
c_company == <<"c","o","m","p","a","n","y">>
c_vendors == <<"v","e","n","d","o","r","s">>
c_total_revenue == <<"t","o","t","a","l","_","r","e","v","e","n","u","e">>
c_gm_1 == <<"g","m","_","1">>
c_gm_2 == <<"g","m","_","2">>
c_discount == <<"d","i","s","c","o","u","n","t">>
c_refund_amount == <<"r","e","f","u","n","d","_","a","m","o","u","n","t">>
c_deliveryfee == <<"d","e","l","i","v","e","r","y","f","e","e">>
c_vendor_delivery_fee == <<"v","e","n","d","o","r","_","d","e","l","i","v","e","r","y","_","f","e","e">>
c_smartlogistics_cost == <<"s","m","a","r","t","l","o","g","i","s","t","i","c","s","_","c","o","s","t">>
c_commission_in_currency == <<"c","o","m","m","i","s","s","i","o","n","_","i","n","_","c","u","r","r","e","n","c","y">>
c_totalitems == <<"t","o","t","a","l","i","t","e","m","s">>
c_status == <<"s","t","a","t","u","s">>
c_delivery_status == <<"d","e","l","i","v","e","r","y","_","s","t","a","t","u","s">>
c_order_segment == <<"o","r","d","e","r","_","s","e","g","m","e","n","t">>

x_ordernumber == <<"O","r","d","e","r","N","u","m","b","e","r">>
x_customerid == <<"C","u","s","t","o","m","e","r","I","D">>
x_customer == <<"C","u","s","t","o","m","e","r">>
x_company == <<"C","o","m","p","a","n","y">>
x_vendors == <<"V","e","n","d","o","r","s">>
x_total_revenue == <<"T","o","t","a","l","_","R","e","v","e","n","u","e">>
x_gm_1 == <<"G","M","1">>
x_gm_2 == <<"G","M","2">>
x_discount == <<"D","i","s","c","o","u","n","t">>
x_refund_amount == <<"R","e","f","u","n","d","_","A","m","o","u","n","t">>
x_deliveryfee == <<"D","e","l","i","v","e","r","y","F","e","e">>
x_vendor_delivery_fee == <<"V","e","n","d","o","r","_","D","e","l","i","v","e","r","y","_","F","e","e">>
x_smartlogistics_cost == <<"S","m","a","r","t","L","o","g","i","s","t","i","c","s","_","C","o","s","t">>
x_commission_in_currency == <<"C","o","m","m","i","s","s","i","o","n","_","i","n","_","C","u","r","r","e","n","c","y">>
x_totalitems == <<"T","o","t","a","l","I","t","e","m","s">>
x_status == <<"S","t","a","t","u","s">>
x_delivery_status == <<"D","e","l","i","v","e","r","y","_","S","t","a","t","u","s">>

l_ordernumber == <<" ","O","R","D","E","R","N","U","M","B","E","R"," ">>
l_customerid == <<" ","C","U","S","T","O","M","E","R","I","D"," ">>
l_customer == <<" ","C","U","S","T","O","M","E","R"," ">>
l_company == <<" ","C","O","M","P","A","N","Y"," ">>
l_vendors == <<" ","V","E","N","D","O","R","S"," ">>
l_total_revenue == <<" ","T","O","T","A","L"," ","R","E","V","E","N","U","E"," ">>
l_gm_1 == <<" ","G","M"," ","1"," ">>
l_gm_2 == <<" ","G","M"," ","2"," ">>
l_discount == <<" ","D","I","S","C","O","U","N","T"," ">>
l_refund_amount == <<" ","R","E","F","U","N","D"," ","A","M","O","U","N","T"," ">>
l_deliveryfee == <<" ","D","E","L","I","V","E","R","Y","F","E","E"," ">>
l_vendor_delivery_fee == <<" ","V","E","N","D","O","R"," ","D","E","L","I","V","E","R","Y"," ","F","E","E"," ">>
l_smartlogistics_cost == <<" ","S","M","A","R","T","L","O","G","I","S","T","I","C","S"," ","C","O","S","T"," ">>
l_commission_in_currency == <<" ","C","O","M","M","I","S","S","I","O","N"," ","I","N"," ","C","U","R","R","E","N","C","Y"," ">>
l_totalitems == <<" ","T","O","T","A","L","I","T","E","M","S"," ">>
l_status == <<" ","S","T","A","T","U","S"," ">>
l_delivery_status == <<" ","D","E","L","I","V","E","R","Y"," ","S","T","A","T","U","S"," ">>

\* the strings the code compares cells with, and the labels it produces
t_cancelled == <<"c","a","n","c","e","l","l","e","d">>
t_rejected == <<"r","e","j","e","c","t","e","d">>
t_completed == <<"c","o","m","p","l","e","t","e","d">>
t_Cancelled == <<"C","a","n","c","e","l","l","e","d">>
t_red == <<"r","e","d">>
t_green == <<"g","r","e","e","n">>
seg_one_time == <<"1"," ","-"," ","O","n","e","-","t","i","m","e">>
seg_low == <<"2","-","5"," ","-"," ","L","o","w"," ","R","e","p","e","a","t">>
seg_medium == <<"6","-","1","0"," ","-"," ","M","e","d","i","u","m"," ","R","e","p","e","a","t">>
seg_high == <<"1","1","-","2","0"," ","-"," ","H","i","g","h"," ","R","e","p","e","a","t">>
seg_very_high == <<"2","1","+"," ","-"," ","V","e","r","y"," ","H","i","g","h"," ","R","e","p","e","a","t">>
bin_micro == <<"1","."," ","<"," ","5","0"," ","(","M","i","c","r","o",")">>
bin_small == <<"2","."," ","5","0","-","1","5","0"," ","(","S","m","a","l","l",")">>
bin_medium == <<"3","."," ","1","5","0","-","3","0","0"," ","(","M","e","d","i","u","m",")">>
bin_large == <<"4","."," ","3","0","0","-","5","0","0"," ","(","L","a","r","g","e",")">>
bin_vlarge == <<"5","."," ","5","0","0","-","1","0","0","0"," ","(","V",".","L","a","r","g","e",")">>
bin_enterprise == <<"6","."," ","1","0","0","0","+"," ","(","E","n","t","e","r","p","r","i","s","e",")">>

CanonNames == <<c_ordernumber, c_customerid, c_customer, c_company, c_vendors,
                c_total_revenue, c_gm_1, c_gm_2, c_discount, c_refund_amount,
                c_deliveryfee, c_vendor_delivery_fee, c_smartlogistics_cost,
                c_commission_in_currency, c_totalitems, c_status, c_delivery_status>>

ExcelNames == <<x_ordernumber, x_customerid, x_customer, x_company, x_vendors,
                x_total_revenue, x_gm_1, x_gm_2, x_discount, x_refund_amount,
                x_deliveryfee, x_vendor_delivery_fee, x_smartlogistics_cost,
                x_commission_in_currency, x_totalitems, x_status, x_delivery_status>>

LooseNames == <<l_ordernumber, l_customerid, l_customer, l_company, l_vendors,
                l_total_revenue, l_gm_1, l_gm_2, l_discount, l_refund_amount,
                l_deliveryfee, l_vendor_delivery_fee, l_smartlogistics_cost,
                l_commission_in_currency, l_totalitems, l_status, l_delivery_status>>

\* column_mapping of load_data: Excel name -> expected name
column_mapping == [i \in 1..Len(ExcelNames) |-> <<ExcelNames[i], CanonNames[i]>>]

\* DataFrame.rename(columns=column_mapping) on one label
RenameLabel(name) ==
    IF \E i \in 1..Len(column_mapping) : column_mapping[i][1] = name
    THEN column_mapping[CHOOSE i \in 1..Len(column_mapping) : column_mapping[i][1] = name][2]
    ELSE name

UpperCase == <<"A","B","C","D","E","F","G","H","I","J","K","L","M",
               "N","O","P","Q","R","S","T","U","V","W","X","Y","Z">>
LowerCase == <<"a","b","c","d","e","f","g","h","i","j","k","l","m",
               "n","o","p","q","r","s","t","u","v","w","x","y","z">>

\* a lower() that flips the case of every letter instead
SwapCaseChar(ch) ==
    IF \E i \in 1..26 : UpperCase[i] = ch
    THEN LowerCase[CHOOSE i \in 1..26 : UpperCase[i] = ch]
    ELSE IF \E i \in 1..26 : LowerCase[i] = ch
         THEN UpperCase[CHOOSE i \in 1..26 : LowerCase[i] = ch]
         ELSE ch

\* str.lower on one character
LowerChar(ch) ==
    IF \E i \in 1..26 : UpperCase[i] = ch
    THEN LowerCase[CHOOSE i \in 1..26 : UpperCase[i] = ch]
    ELSE ch

StrLower(s) == [i \in 1..Len(s) |-> LowerChar(s[i])]

Whitespace == {" ", "\t"}

\* str.strip: drop leading and trailing whitespace
RECURSIVE LStrip(_)
LStrip(s) == IF s # <<>> /\ Head(s) \in Whitespace THEN LStrip(Tail(s)) ELSE s

RECURSIVE RStrip(_)
RStrip(s) ==
    IF s # <<>> /\ s[Len(s)] \in Whitespace THEN RStrip(SubSeq(s, 1, Len(s) - 1)) ELSE s

StrStrip(s) == RStrip(LStrip(s))

\* str.replace(' ', '_')
ReplaceBlank(s) == [i \in 1..Len(s) |-> IF s[i] = " " THEN "_" ELSE s[i]]

\* df.columns.str.lower().str.strip().str.replace(' ', '_') on one label
NormalizeLabel(name) == ReplaceBlank(StrStrip(StrLower(name)))

(***************************************************************************)
(* Cells.  A cell is a number, a string (its characters) or the missing      *)
(* value NaN.                                                                *)
(***************************************************************************)
NaN == [k |-> "nan", n |-> 0, s |-> <<>>]
N(n) == [k |-> "num", n |-> n, s |-> <<>>]
S(s) == [k |-> "str", n |-> 0, s |-> s]

IsNull(c) == c.k = "nan"

Digits == <<"0","1","2","3","4","5","6","7","8","9">>

IsDigit(ch) == \E i \in 1..10 : Digits[i] = ch

DigitVal(ch) == (CHOOSE i \in 1..10 : Digits[i] = ch) - 1

RECURSIVE DecimalValue(_)
DecimalValue(s) ==
    IF s = <<>> THEN 0
    ELSE 10 * DecimalValue(SubSeq(s, 1, Len(s) - 1)) + DigitVal(s[Len(s)])

\* the text is an optionally signed run of digits (the sheets of this model
\* hold no decimal fractions, exponents or padded numbers)
IsIntegerText(s) ==
    LET d == IF s # <<>> /\ Head(s) = "-" THEN Tail(s) ELSE s
    IN d # <<>> /\ \A i \in 1..Len(d) : IsDigit(d[i])

IntegerOfText(s) ==
    IF Head(s) = "-" THEN 0 - DecimalValue(Tail(s)) ELSE DecimalValue(s)

\* pd.to_numeric(errors='coerce') on one cell
ToNumeric(c) ==
    CASE c.k = "num" -> c
      [] c.k = "str" /\ IsIntegerText(c.s) -> N(IntegerOfText(c.s))
      [] OTHER -> NaN

\* fillna(0) on one cell
FillNa0(c) == IF IsNull(c) THEN N(0) ELSE c

(***************************************************************************)
(* Tables.                                                                   *)
(***************************************************************************)
HasCol(t, name) == name \in Range(t.columns)

ColPos(t, name) == CHOOSE i \in 1..Len(t.columns) : t.columns[i] = name

\* t[name] of row number i (position, not index label)
Cell(t, i, name) == t.rows[i][ColPos(t, name)]

NRows(t) == Len(t.rows)

\* a finite set of integers as an increasing sequence
Ascending(P) ==
    [k \in 1..Cardinality(P) |-> CHOOSE i \in P : Cardinality({j \in P : j < i}) = k - 1]

\* boolean indexing df[mask], P the positions where the mask is true: the kept
\* rows stay in order and keep their index labels
Take(t, P) ==
    LET p == Ascending(P)
    IN [t EXCEPT !.index = [i \in 1..Len(p) |-> t.index[p[i]]],
                 !.rows = [i \in 1..Len(p) |-> t.rows[p[i]]]]

(***************************************************************************)
(* load_data.                                                                *)
(***************************************************************************)
numeric_cols == <<c_total_revenue, c_gm_1, c_gm_2, c_discount, c_refund_amount,
                  c_deliveryfee, c_vendor_delivery_fee, c_smartlogistics_cost,
                  c_commission_in_currency, c_totalitems>>

ExcludedStatus == {t_cancelled, t_rejected}

RenameColumns(t) ==
    [t EXCEPT !.columns = [i \in 1..Len(t.columns) |-> RenameLabel(t.columns[i])]]

NormalizeColumns(t) ==
    [t EXCEPT !.columns = [i \in 1..Len(t.columns) |-> NormalizeLabel(t.columns[i])]]

\* an isin that lists 'cancelled' alone
IsExcludedCancelledOnly(c) == c.k = "str" /\ c.s = t_cancelled

\* Series.isin(['cancelled', 'rejected']) on one cell
IsExcluded(c) == c.k = "str" /\ c.s \in ExcludedStatus

StatusFilter(t) ==
    IF HasCol(t, c_status)
    THEN Take(t, {i \in 1..NRows(t) : ~IsExcluded(Cell(t, i, c_status))})
    ELSE t

\* a coercion without the fillna(0)
CoerceCellNoFill(c) == ToNumeric(c)

\* pd.to_numeric(cell, errors='coerce') followed by fillna(0)
CoerceCell(c) == FillNa0(ToNumeric(c))

\* df[col] = pd.to_numeric(df[col], errors='coerce').fillna(0)
CoerceColumn(t, name) ==
    LET j == ColPos(t, name)
    IN [t EXCEPT !.rows =
          [i \in 1..NRows(t) |-> [t.rows[i] EXCEPT ![j] = CoerceCell(t.rows[i][j])]]]

RECURSIVE CoerceFrom(_, _)
CoerceFrom(t, k) ==
    IF k > Len(numeric_cols) THEN t
    ELSE IF HasCol(t, numeric_cols[k])
         THEN CoerceFrom(CoerceColumn(t, numeric_cols[k]), k + 1)
         ELSE CoerceFrom(t, k + 1)

CoerceNumeric(t) == CoerceFrom(t, 1)

\* the steps of load_data after the sheet is read
Normalize(t) == CoerceNumeric(StatusFilter(NormalizeColumns(RenameColumns(t))))

(***************************************************************************)
(* Floating-point results.  A float is finite (the fraction p/q, q > 0),     *)
(* NaN, inf or -inf; division never raises, as in numpy and pandas.          *)
(***************************************************************************)
Fin(p, q) == [k |-> "fin", p |-> p, q |-> q]
FNaN == [k |-> "nan", p |-> 0, q |-> 1]
FInf == [k |-> "inf", p |-> 0, q |-> 1]
FNegInf == [k |-> "-inf", p |-> 0, q |-> 1]

IsZero(x) == x.k = "fin" /\ x.p = 0

\* a / b on numeric Series or numpy scalars: x/0 is nan, inf or -inf
Div(a, b) ==
    IF b = 0 THEN (IF a = 0 THEN FNaN ELSE IF a > 0 THEN FInf ELSE FNegInf)
    ELSE IF b < 0 THEN Fin(0 - a, 0 - b) ELSE Fin(a, b)

Times100(x) == IF x.k = "fin" THEN Fin(x.p * 100, x.q) ELSE x

\* p/q rounded to the nearest integer, ties to even
RoundHalfEven(p, q) ==
    LET f == p \div q
        r == p - f * q
    IN IF 2 * r > q THEN f + 1
       ELSE IF 2 * r < q THEN f
       ELSE IF f % 2 = 0 THEN f ELSE f + 1

\* .round(2) and round(x, 2): hundredths; nan and inf stay
Round2(x) == IF x.k = "fin" THEN Fin(RoundHalfEven(x.p * 100, x.q), 100) ELSE x

\* DataFrame.fillna(0) on a float column: only nan is filled
FloatFillNa0(x) == IF x.k = "nan" THEN Fin(0, 1) ELSE x

(***************************************************************************)
(* Ordering of strings (code points) and of group keys.                      *)
(***************************************************************************)
AsciiOrder == <<"\t", " ", "(", ")", "+", "-", ".",
                "0","1","2","3","4","5","6","7","8","9", "<",
                "A","B","C","D","E","F","G","H","I","J","K","L","M",
                "N","O","P","Q","R","S","T","U","V","W","X","Y","Z", "_",
                "a","b","c","d","e","f","g","h","i","j","k","l","m",
                "n","o","p","q","r","s","t","u","v","w","x","y","z">>

Ord(ch) == CHOOSE i \in 1..Len(AsciiOrder) : AsciiOrder[i] = ch

\* a < b for Python strings
RECURSIVE StrLess(_, _)
StrLess(a, b) ==
    IF b = <<>> THEN FALSE
    ELSE IF a = <<>> THEN TRUE
    ELSE IF Head(a) = Head(b) THEN StrLess(Tail(a), Tail(b))
    ELSE Ord(Head(a)) < Ord(Head(b))

\* a < b for tuples of strings
RECURSIVE TupleLess(_, _)
TupleLess(a, b) ==
    IF b = <<>> THEN FALSE
    ELSE IF a = <<>> THEN TRUE
    ELSE IF Head(a) = Head(b) THEN TupleLess(Tail(a), Tail(b))
    ELSE StrLess(Head(a), Head(b))

\* the group keys of a groupby (sort=True): a set of strings in lexical order
SortedStrings(K) ==
    [n \in 1..Cardinality(K) |->
        CHOOSE x \in K : Cardinality({y \in K : StrLess(y, x)}) = n - 1]

SortedTuples(K) ==
    [n \in 1..Cardinality(K) |->
        CHOOSE x \in K : Cardinality({y \in K : TupleLess(y, x)}) = n - 1]

(***************************************************************************)
(* Series reductions over a set of row positions P of table t.               *)
(***************************************************************************)
RECURSIVE SumOver(_, _, _)
SumOver(t, P, name) ==
    IF P = {} THEN 0
    ELSE LET i == CHOOSE x \in P : TRUE
             c == Cell(t, i, name)
         IN (IF c.k = "num" THEN c.n ELSE 0) + SumOver(t, P \ {i}, name)

AllRows(t) == 1..NRows(t)

\* Series.sum()
ColSum(t, name) == SumOver(t, AllRows(t), name)

\* Series.mean(): nan on an empty Series
ColMean(t, name) == Div(ColSum(t, name), NRows(t))

\* 'count': the non-null cells
CountOver(t, P, name) == Cardinality({i \in P : ~IsNull(Cell(t, i, name))})

\* Series.nunique(): the distinct non-null values
NUnique(t, name) ==
    Cardinality({Cell(t, i, name) : i \in {j \in AllRows(t) : ~IsNull(Cell(t, j, name))}})

\* the texts of the non-null cells of a key column (groupby drops null keys)
KeysOf(t, name) ==
    {Cell(t, i, name).s : i \in {j \in AllRows(t) : ~IsNull(Cell(t, j, name))}}

RowsOfKey(t, name, key) ==
    {i \in AllRows(t) : ~IsNull(Cell(t, i, name)) /\ Cell(t, i, name).s = key}

\* sort_values('total_revenue', ascending=False) of a sequence of records;
\* equal revenues keep their order
SortByRevenueDesc(s) ==
    LET Before(i, j) == \/ s[i].total_revenue > s[j].total_revenue
                        \/ (s[i].total_revenue = s[j].total_revenue /\ i < j)
    IN [n \in 1..Len(s) |->
          s[CHOOSE i \in 1..Len(s) : Cardinality({j \in 1..Len(s) : Before(j, i)}) = n - 1]]

TopN == 20

\* DataFrame.head(20)
Head20(s) == IF Len(s) <= TopN THEN s ELSE SubSeq(s, 1, TopN)

MissingAny(t, names) == \E c \in names : ~HasCol(t, c)

(***************************************************************************)
(* calculate_overall_metrics.                                                *)
(***************************************************************************)
OverallNeeds == {c_customerid, c_company, c_vendors, c_total_revenue,
                 c_gm_1, c_gm_2, c_discount, c_refund_amount}

calculate_overall_metrics(d) ==
    [total_orders |-> NRows(d),
     unique_customers |-> NUnique(d, c_customerid),
     unique_companies |-> NUnique(d, c_company),
     unique_vendors |-> NUnique(d, c_vendors),
     total_revenue |-> ColSum(d, c_total_revenue),
     avg_revenue_per_order |-> ColMean(d, c_total_revenue),
     total_gm1 |-> ColSum(d, c_gm_1),
     total_gm2 |-> ColSum(d, c_gm_2),
     avg_gm1_per_order |-> ColMean(d, c_gm_1),
     total_discounts |-> ColSum(d, c_discount),
     total_refunds |-> ColSum(d, c_refund_amount)]

(***************************************************************************)
(* calculate_customer_concentration.                                         *)
(***************************************************************************)
ConcentrationNeeds == {c_total_revenue, c_company, c_customerid, c_customer,
                       c_ordernumber, c_gm_1}

ConcentrationKeyCols == <<c_company, c_customerid, c_customer>>

HasFullKey(t, i) == \A k \in 1..3 : ~IsNull(Cell(t, i, ConcentrationKeyCols[k]))

KeyOfRow(t, i) == [k \in 1..3 |-> Cell(t, i, ConcentrationKeyCols[k]).s]

calculate_customer_concentration(d) ==
    LET total_revenue == ColSum(d, c_total_revenue)
        keyed == {i \in AllRows(d) : HasFullKey(d, i)}
        keys == SortedTuples({KeyOfRow(d, i) : i \in keyed})
        Group(key) ==
            LET P == {i \in keyed : KeyOfRow(d, i) = key}
                rev == SumOver(d, P, c_total_revenue)
                cnt == CountOver(d, P, c_ordernumber)
            IN [company |-> key[1], customerid |-> key[2], customer |-> key[3],
                order_count |-> cnt,
                total_revenue |-> rev,
                gm_1 |-> SumOver(d, P, c_gm_1),
                pct_of_total_revenue |-> Round2(Times100(Div(rev, total_revenue))),
                avg_order_value |-> Round2(Div(rev, cnt))]
        concentration == [n \in 1..Len(keys) |-> Group(keys[n])]
    IN Head20(SortByRevenueDesc(concentration))

(***************************************************************************)
(* calculate_repeat_behavior.                                                *)
(***************************************************************************)
RepeatNeeds == {c_customerid, c_ordernumber, c_total_revenue, c_gm_1}

\* the segments with their upper bounds exclusive
segment_customer_exclusive(order_count) ==
    IF order_count = 1 THEN seg_one_time
    ELSE IF order_count < 5 THEN seg_low
    ELSE IF order_count < 10 THEN seg_medium
    ELSE IF order_count < 20 THEN seg_high
    ELSE seg_very_high

segment_customer(order_count) ==
    IF order_count = 1 THEN seg_one_time
    ELSE IF order_count <= 5 THEN seg_low
    ELSE IF order_count <= 10 THEN seg_medium
    ELSE IF order_count <= 20 THEN seg_high
    ELSE seg_very_high

\* stage 1: one row per customer
customer_orders(d) ==
    LET keys == SortedStrings(KeysOf(d, c_customerid))
        Group(key) ==
            LET P == RowsOfKey(d, c_customerid, key)
                cnt == CountOver(d, P, c_ordernumber)
            IN [customerid |-> key,
                order_count |-> cnt,
                total_revenue |-> SumOver(d, P, c_total_revenue),
                gm_1 |-> SumOver(d, P, c_gm_1),
                segment |-> segment_customer(cnt)]
    IN [n \in 1..Len(keys) |-> Group(keys[n])]

\* 'sum' of a column, given as the sequence of its values, over the rows P
SumAt(values, P) ==
    LET a == Ascending(P)
    IN SumSeq([k \in 1..Len(a) |-> values[a[k]]])

calculate_repeat_behavior(d) ==
    LET co == customer_orders(d)
        segs == SortedStrings({co[i].segment : i \in 1..Len(co)})
        order_count == [i \in 1..Len(co) |-> co[i].order_count]
        total_revenue == [i \in 1..Len(co) |-> co[i].total_revenue]
        gm_1 == [i \in 1..Len(co) |-> co[i].gm_1]
        Group(seg) ==
            LET P == {i \in 1..Len(co) : co[i].segment = seg}
                rev == SumAt(total_revenue, P)
            IN [segment |-> seg,
                customer_count |-> Cardinality(P),
                order_count |-> SumAt(order_count, P),
                total_revenue |-> rev,
                gm_1 |-> SumAt(gm_1, P),
                avg_revenue_per_customer |-> Round2(Div(rev, Cardinality(P)))]
    IN [n \in 1..Len(segs) |-> Group(segs[n])]

(***************************************************************************)
(* calculate_vendor_performance.                                             *)
(***************************************************************************)
VendorNeeds == {c_vendors, c_ordernumber, c_total_revenue, c_gm_1,
                c_commission_in_currency, c_refund_amount}

\* df[df['delivery_status'] == 'red'].groupby('vendors').size(), the group of key
LateRows(d, key) ==
    {i \in RowsOfKey(d, c_vendors, key) : Cell(d, i, c_delivery_status) = S(t_red)}

\* a late count over the rows of every delivery status
LateOfAnyStatus(d, key) == Cardinality(RowsOfKey(d, c_vendors, key))

\* merge(how='left'): a vendor without a late row gets NaN; then fillna(0)
Late(d, key) ==
    FillNa0(IF LateRows(d, key) # {} THEN N(Cardinality(LateRows(d, key))) ELSE NaN).n

calculate_vendor_performance(d) ==
    LET keys == SortedStrings(KeysOf(d, c_vendors))
        merged == HasCol(d, c_delivery_status)
        \* fillna(0) runs over every column of the merged frame
        Filled(x) == IF merged THEN FloatFillNa0(x) ELSE x
        Group(key) ==
            LET P == RowsOfKey(d, c_vendors, key)
                rev == SumOver(d, P, c_total_revenue)
                gm == SumOver(d, P, c_gm_1)
                cnt == CountOver(d, P, c_ordernumber)
            IN [vendors |-> key,
                order_count |-> cnt,
                total_revenue |-> rev,
                gm_1 |-> gm,
                commission_in_currency |-> SumOver(d, P, c_commission_in_currency),
                refund_count |-> Cardinality({i \in P : Cell(d, i, c_refund_amount).n > 0}),
                avg_revenue_per_order |-> Filled(Round2(Div(rev, cnt))),
                margin_pct |-> Filled(Round2(Times100(Div(gm, rev)))),
                late_deliveries |-> IF merged THEN Late(d, key) ELSE 0]
        vendor_perf == [n \in 1..Len(keys) |-> Group(keys[n])]
    IN Head20(SortByRevenueDesc(vendor_perf))

(***************************************************************************)
(* calculate_order_size_segments.                                            *)
(***************************************************************************)
\* the bins with their upper bounds inclusive
segment_order_inclusive(revenue) ==
    IF revenue <= 50 THEN bin_micro
    ELSE IF revenue <= 150 THEN bin_small
    ELSE IF revenue <= 300 THEN bin_medium
    ELSE IF revenue <= 500 THEN bin_large
    ELSE IF revenue <= 1000 THEN bin_vlarge
    ELSE bin_enterprise

segment_order(revenue) ==
    IF revenue < 50 THEN bin_micro
    ELSE IF revenue < 150 THEN bin_small
    ELSE IF revenue < 300 THEN bin_medium
    ELSE IF revenue < 500 THEN bin_large
    ELSE IF revenue < 1000 THEN bin_vlarge
    ELSE bin_enterprise

\* df[name] = values: a new column goes last, an existing one is overwritten
SetColumn(t, name, values) ==
    IF HasCol(t, name)
    THEN [t EXCEPT !.rows =
            [i \in 1..NRows(t) |-> [t.rows[i] EXCEPT ![ColPos(t, name)] = values[i]]]]
    ELSE [t EXCEPT !.columns = Append(t.columns, name),
                   !.rows = [i \in 1..NRows(t) |-> Append(t.rows[i], values[i])]]

\* an annotation that also cuts the table passed in down to its first row
AnnotateAndTruncate(d) ==
    Take(SetColumn(d, c_order_segment,
                   [i \in 1..NRows(d) |-> S(segment_order(Cell(d, i, c_total_revenue).n))]),
         {i \in 1..NRows(d) : i = 1})

\* df['order_segment'] = df['total_revenue'].apply(segment_order), on the table passed in
AnnotateInPlace(d) ==
    SetColumn(d, c_order_segment,
              [i \in 1..NRows(d) |-> S(segment_order(Cell(d, i, c_total_revenue).n))])

SegmentsNeedsFirst == {c_total_revenue}

SegmentsNeeds == {c_total_revenue, c_ordernumber, c_gm_1, c_totalitems}

calculate_order_size_segments(d) ==
    LET m == AnnotateInPlace(d)
        keys == SortedStrings(KeysOf(m, c_order_segment))
        Group(key) ==
            LET P == RowsOfKey(m, c_order_segment, key)
                rev == SumOver(m, P, c_total_revenue)
                gm == SumOver(m, P, c_gm_1)
                cnt == CountOver(m, P, c_ordernumber)
            IN [order_segment |-> key,
                order_count |-> cnt,
                total_revenue |-> rev,
                gm_1 |-> gm,
                totalitems |-> Div(SumOver(m, P, c_totalitems), Cardinality(P)),
                avg_revenue |-> Round2(Div(rev, cnt)),
                margin_pct |-> Round2(Times100(Div(gm, rev)))]
    IN [n \in 1..Len(keys) |-> Group(keys[n])]

(***************************************************************************)
(* calculate_logistics_metrics.                                              *)
(***************************************************************************)
LogisticsNeeds == {c_deliveryfee, c_vendor_delivery_fee, c_smartlogistics_cost}

calculate_logistics_metrics(d) ==
    [delivery_fee_charged |-> ColSum(d, c_deliveryfee),
     vendor_delivery_cost |-> ColSum(d, c_vendor_delivery_fee),
     smart_logistics_cost |-> ColSum(d, c_smartlogistics_cost),
     net_margin |-> ColSum(d, c_deliveryfee) - ColSum(d, c_vendor_delivery_fee)
                    - ColSum(d, c_smartlogistics_cost)]

(***************************************************************************)
(* calculate_operational_risk.                                               *)
(***************************************************************************)
RiskNeeds == {c_refund_amount}

\* a count of the cells that hold any status
CountNotNull(d, name, text) == Cardinality({i \in AllRows(d) : ~IsNull(Cell(d, i, name))})

\* (df[name] == text).sum()
CountEq(d, name, text) == Cardinality({i \in AllRows(d) : Cell(d, i, name) = S(text)})

calculate_operational_risk(d) ==
    LET total_orders == NRows(d)
        orders_with_refunds ==
            Cardinality({i \in AllRows(d) : Cell(d, i, c_refund_amount).n > 0})
        late_deliveries ==
            IF HasCol(d, c_delivery_status) THEN CountEq(d, c_delivery_status, t_red) ELSE 0
        on_time_deliveries ==
            IF HasCol(d, c_delivery_status) THEN CountEq(d, c_delivery_status, t_green) ELSE 0
    IN [total_orders |-> total_orders,
        orders_with_refunds |-> orders_with_refunds,
        refund_rate_pct |-> IF total_orders > 0
                            THEN Round2(Times100(Div(orders_with_refunds, total_orders)))
                            ELSE Fin(0, 1),
        total_refund_amount |-> ColSum(d, c_refund_amount),
        late_deliveries |-> late_deliveries,
        late_delivery_rate_pct |-> IF total_orders > 0
                                   THEN Round2(Times100(Div(late_deliveries, total_orders)))
                                   ELSE Fin(0, 1),
        on_time_deliveries |-> on_time_deliveries]

(***************************************************************************)
(* One call of an aggregation function: what it returns or raises, and the   *)
(* table of the caller after the call.                                       *)
(***************************************************************************)
Fns == {"calculate_overall_metrics", "calculate_logistics_metrics",
        "calculate_customer_concentration", "calculate_repeat_behavior",
        "calculate_vendor_performance", "calculate_order_size_segments",
        "calculate_operational_risk"}

NotCalled == [st |-> "none", val |-> <<>>]
Returned(v) == [st |-> "ok", val |-> v]
Raised(e) == [st |-> "raise", val |-> e]

\* df[name] of a missing column raises KeyError
Result(f, d) ==
    CASE f = "calculate_overall_metrics" ->
            IF MissingAny(d, OverallNeeds) THEN Raised("KeyError")
            ELSE Returned(calculate_overall_metrics(d))
      [] f = "calculate_logistics_metrics" ->
            IF MissingAny(d, LogisticsNeeds) THEN Raised("KeyError")
            ELSE Returned(calculate_logistics_metrics(d))
      [] f = "calculate_customer_concentration" ->
            IF MissingAny(d, ConcentrationNeeds) THEN Raised("KeyError")
            ELSE Returned(calculate_customer_concentration(d))
      [] f = "calculate_repeat_behavior" ->
            IF MissingAny(d, RepeatNeeds) THEN Raised("KeyError")
            ELSE Returned(calculate_repeat_behavior(d))
      [] f = "calculate_vendor_performance" ->
            IF MissingAny(d, VendorNeeds) THEN Raised("KeyError")
            ELSE Returned(calculate_vendor_performance(d))
      [] f = "calculate_order_size_segments" ->
            IF MissingAny(d, SegmentsNeeds) THEN Raised("KeyError")
            ELSE Returned(calculate_order_size_segments(d))
      [] f = "calculate_operational_risk" ->
            IF MissingAny(d, RiskNeeds) THEN Raised("KeyError")
            ELSE Returned(calculate_operational_risk(d))

\* only calculate_order_size_segments assigns to its argument, and it does so
\* before it reads any column other than total_revenue
TableAfter(f, d) ==
    IF f = "calculate_order_size_segments" /\ ~MissingAny(d, SegmentsNeedsFirst)
    THEN AnnotateInPlace(d)
    ELSE d

(***************************************************************************)
(* The sheets the model reads.  A row is written in the order of CanonNames; *)
(* Sheet drops the columns at the positions D and labels the rest.           *)
(***************************************************************************)
Base == [ordernumber |-> S(<<"o">>), customerid |-> S(<<"A">>), customer |-> S(<<"a">>),
         company |-> S(<<"K">>), vendors |-> S(<<"V">>), total_revenue |-> N(100),
         gm_1 |-> N(5), refund_amount |-> N(0), status |-> S(t_completed),
         delivery_status |-> S(t_green)]

Row(r) == <<r.ordernumber, r.customerid, r.customer, r.company, r.vendors,
            r.total_revenue, r.gm_1, N(1), N(2), r.refund_amount,
            N(10), N(4), N(3), N(2), N(2), r.status, r.delivery_status>>

StatusPos == 16
DeliveryPos == 17

Drop(s, D) ==
    LET keep == Ascending((1..Len(s)) \ D)
    IN [k \in 1..Len(keep) |-> s[keep[k]]]

Sheet(names, D, rows) ==
    [readable |-> TRUE,
     columns |-> Drop(names, D),
     rows |-> [i \in 1..Len(rows) |-> Drop(rows[i], D)]]

Unreadable == [readable |-> FALSE, columns |-> <<>>, rows |-> <<>>]

Headers == {CanonNames, ExcelNames, LooseNames}

\* order statuses, with and without the status column, under each header style;
\* the revenue is typed as text
StatusRows ==
    {Row([Base EXCEPT !.status = s, !.total_revenue = S(<<"1","2">>)]) :
        s \in {S(t_completed), S(t_cancelled), S(t_rejected), S(t_Cancelled), NaN}}

FamStatus ==
    {Sheet(h, D, rows) : h \in Headers, D \in {{}, {StatusPos}},
                         rows \in SeqsUpTo(StatusRows, MaxRows)}

\* numbers, numeric text, other text and blanks in the numeric columns
NumericRows ==
    {Row([Base EXCEPT !.total_revenue = v, !.gm_1 = g]) :
        v \in {N(7), S(<<"1","2">>), S(<<"-","3">>), S(<<"x">>), NaN},
        g \in {N(5), NaN}}

FamNumeric ==
    {Sheet(h, {}, rows) : h \in Headers, rows \in SeqsUpTo(NumericRows, MaxRows)}

\* orders of every size, one per revenue of a small set of revenues
RevValues == {-5, 0, 49, 50, 100, 149, 150, 299, 300, 499, 500, 850, 999, 1000}

SizeRows(V, gm, blank) ==
    LET v == Ascending(V)
    IN [i \in 1..Len(v) |->
          Row([Base EXCEPT !.total_revenue = N(v[i]), !.gm_1 = N(gm),
                           !.ordernumber = IF blank /\ i = 1 THEN NaN ELSE S(<<"o">>)])]

FamSize ==
    {Sheet(CanonNames, {}, SizeRows(V, gm, blank)) :
        V \in {W \in SUBSET RevValues : Cardinality(W) <= MaxRows},
        gm \in {-5, 0, 5}, blank \in BOOLEAN}

\* vendors with and without revenue, margin and late deliveries
VendorRows ==
    {Row([Base EXCEPT !.vendors = v, !.total_revenue = N(r), !.gm_1 = N(g),
                      !.delivery_status = s]) :
        v \in {S(<<"V">>), S(<<"W">>)}, r \in {0, 100}, g \in {0, 5},
        s \in {S(t_red), S(t_green)}}

FamVendor ==
    {Sheet(CanonNames, D, rows) : D \in {{}, {DeliveryPos}},
                                  rows \in SeqsUpTo(VendorRows, MaxRows)}

\* orders with and without a refund, late, on time and without a delivery status
RiskRows ==
    {Row([Base EXCEPT !.refund_amount = N(0), !.delivery_status = S(t_red)]),
     Row([Base EXCEPT !.refund_amount = N(5), !.delivery_status = S(t_red)]),
     Row([Base EXCEPT !.refund_amount = N(5), !.delivery_status = S(t_green)]),
     Row([Base EXCEPT !.refund_amount = N(0), !.delivery_status = NaN])}

FamRisk ==
    {Sheet(CanonNames, D, rows) : D \in {{}, {DeliveryPos}},
                                  rows \in SeqsUpTo(RiskRows, MaxRiskRows)}

\* customer A with a orders and customer B with b, an order of A without a
\* number and an order without a customer
RepeatRows(a, b, blankNumber, blankCustomer) ==
    Repeat(Row(Base), a)
    \o Repeat(Row([Base EXCEPT !.customerid = S(<<"B">>), !.customer = S(<<"b">>)]), b)
    \o Repeat(Row([Base EXCEPT !.ordernumber = NaN]), blankNumber)
    \o Repeat(Row([Base EXCEPT !.customerid = NaN]), blankCustomer)

OtherOrders == {0, 1, 2, 6, 11, 21}

FamRepeat ==
    {Sheet(CanonNames, {}, RepeatRows(a, b, x, y)) :
        a \in 0..MaxOrders, b \in OtherOrders, x \in 0..1, y \in 0..1}

\* the three orders of the example: A 100 and 50, B 850
ExampleRows ==
    <<Row([Base EXCEPT !.total_revenue = N(100), !.gm_1 = N(10)]),
      Row([Base EXCEPT !.total_revenue = N(50), !.gm_1 = N(5)]),
      Row([Base EXCEPT !.customerid = S(<<"B">>), !.customer = S(<<"b">>),
                       !.total_revenue = N(850), !.gm_1 = N(50)])>>

FamExample == {Sheet(h, {}, ExampleRows) : h \in Headers}

\* one expected column missing, with no row or one
FamSchema ==
    {Sheet(CanonNames, {k}, rows) : k \in 1..Len(CanonNames),
                                    rows \in {<<>>, <<Row(Base)>>}}

\* a further column with a free-form label
LabelChars == {" ", "\t", "_", "A", "a"}

FamLabels ==
    {[readable |-> TRUE,
      columns |-> Append(CanonNames, label),
      rows |-> <<Append(Row(Base), S(<<"x">>))>>] : label \in SeqsUpTo(LabelChars, MaxLabel)}

Sheets ==
    FamStatus \cup FamNumeric \cup FamSize \cup FamVendor \cup FamRepeat
    \cup FamRisk \cup FamExample \cup FamSchema \cup FamLabels \cup {Unreadable}

(***************************************************************************)
(* The program.                                                              *)
(***************************************************************************)
NoFrame == [columns |-> <<>>, index |-> <<>>, rows |-> <<>>]

NoError == [exc |-> "none", at |-> "none"]

\* pd.read_excel: the rows get the index labels 0, 1, 2, ...
read_excel(src) ==
    [columns |-> src.columns,
     index |-> [i \in 1..Len(src.rows) |-> i - 1],
     rows |-> src.rows]

load_data(src) == Normalize(read_excel(src))

Init ==
    /\ source \in Sheets
    /\ driver \in {"main", "direct"}
    /\ df = NoFrame
    /\ pc = "start"
    /\ out = [f \in Fns |-> NotCalled]
    /\ error = NoError

\* df = load_data(), by main or by a direct caller; in main a failure to read
\* the sheet goes to the except clause
Load ==
    /\ pc = "start"
    /\ IF source.readable
       THEN /\ df' = load_data(source)
            /\ pc' = "loaded"
            /\ error' = NoError
       ELSE /\ df' = df
            /\ pc' = "failed"
            /\ error' = [exc |-> "FileNotFoundError", at |-> "load_data"]
    /\ UNCHANGED <<source, out, driver>>

\* a direct caller runs one aggregation function on the loaded table
Call(f) ==
    /\ driver = "direct"
    /\ pc = "loaded"
    /\ out' = [out EXCEPT ![f] = Result(f, df)]
    /\ df' = TableAfter(f, df)
    /\ pc' = "returned"
    /\ UNCHANGED <<source, error, driver>>

\* what main does with the value v that f returned can raise too:
\* concentration.iloc[0] on a frame without rows
RenderRaises(f, v) == f = "calculate_customer_concentration" /\ Len(v) = 0

\* a step of main: call f, then render what it returned; the except clause
\* of main takes any exception
MainStep(f, to) ==
    /\ out' = [out EXCEPT ![f] = Result(f, df)]
    /\ df' = TableAfter(f, df)
    /\ IF out'[f].st = "raise"
       THEN pc' = "failed" /\ error' = [exc |-> out'[f].val, at |-> f]
       ELSE IF RenderRaises(f, out'[f].val)
            THEN pc' = "failed" /\ error' = [exc |-> "IndexError", at |-> f]
            ELSE pc' = to /\ error' = error
    /\ UNCHANGED <<source, driver>>

MainOverall ==
    /\ driver = "main" /\ pc = "loaded"
    /\ MainStep("calculate_overall_metrics", "overall")

MainLogistics ==
    /\ driver = "main" /\ pc = "overall"
    /\ MainStep("calculate_logistics_metrics", "summary")

MainConcentration ==
    /\ driver = "main" /\ pc = "summary"
    /\ MainStep("calculate_customer_concentration", "tab1")

MainRepeat ==
    /\ driver = "main" /\ pc = "tab1"
    /\ MainStep("calculate_repeat_behavior", "tab2")

MainVendors ==
    /\ driver = "main" /\ pc = "tab2"
    /\ MainStep("calculate_vendor_performance", "tab3")

MainSegments ==
    /\ driver = "main" /\ pc = "tab3"
    /\ MainStep("calculate_order_size_segments", "tab4")

MainRisk ==
    /\ driver = "main" /\ pc = "tab4"
    /\ MainStep("calculate_operational_risk", "done")

Next ==
    \/ Load
    \/ \E f \in Fns : Call(f)
    \/ MainOverall
    \/ MainLogistics
    \/ MainConcentration
    \/ MainRepeat
    \/ MainVendors
    \/ MainSegments
    \/ MainRisk

Spec == Init /\ [][Next]_vars

(***************************************************************************)
(* The aggregation functions in any order.  A caller loads the table once    *)
(* and runs the functions on it one after another, in any order and any      *)
(* number of times; an exception of one call does not stop the next.  The    *)
(* calls are whole steps: the program has one thread.                        *)
(***************************************************************************)
AnyOrderSheets == FamExample \cup FamSchema \cup {Unreadable}

InitAnyOrder ==
    /\ source \in AnyOrderSheets
    /\ driver \in {"main", "free"}
    /\ df = NoFrame
    /\ pc = "start"
    /\ out = [f \in Fns |-> NotCalled]
    /\ error = NoError

CallAnyOrder(f) ==
    /\ driver = "free"
    /\ pc = "loaded"
    /\ out' = [out EXCEPT ![f] = Result(f, df)]
    /\ df' = TableAfter(f, df)
    /\ UNCHANGED <<source, pc, error, driver>>

NextAnyOrder ==
    \/ Load
    \/ \E f \in Fns : CallAnyOrder(f)
    \/ MainOverall
    \/ MainLogistics
    \/ MainConcentration
    \/ MainRepeat
    \/ MainVendors
    \/ MainSegments
    \/ MainRisk

SpecAnyOrder == InitAnyOrder /\ [][NextAnyOrder]_vars

(***************************************************************************)
(* Properties.                                                               *)
(***************************************************************************)
OVERALL == "calculate_overall_metrics"
REPEAT == "calculate_repeat_behavior"
VENDORS == "calculate_vendor_performance"
SEGMENTS == "calculate_order_size_segments"
RISK == "calculate_operational_risk"

\* load_data has returned
LoadReturned == pc # "start" /\ error.at # "load_data"

\* the status column of the sheet, under any of its three spellings
SheetStatusPos ==
    CHOOSE j \in 1..Len(source.columns) : source.columns[j] \in {c_status, x_status, l_status}

SheetHasStatus == \E j \in 1..Len(source.columns) :
                      source.columns[j] \in {c_status, x_status, l_status}

KeptBySheetStatus(i) ==
    source.rows[i][SheetStatusPos] \notin {S(t_cancelled), S(t_rejected)}

\* C1: after load_data, a table with a status column holds no row whose status
\* is 'cancelled' or 'rejected' and holds every other row of the sheet; a table
\* without a status column holds every row of the sheet.
C1_StatusFilter ==
    pc = "loaded" =>
        /\ HasCol(df, c_status) <=> SheetHasStatus
        /\ HasCol(df, c_status) =>
             /\ \A i \in 1..NRows(df) :
                    Cell(df, i, c_status) \notin {S(t_cancelled), S(t_rejected)}
             /\ Range(df.index) =
                   {i - 1 : i \in {j \in 1..Len(source.rows) : KeptBySheetStatus(j)}}
             /\ \A m, n \in 1..NRows(df) : m < n => df.index[m] < df.index[n]
        /\ ~HasCol(df, c_status) =>
             df.index = [i \in 1..Len(source.rows) |-> i - 1]

C1_Witness ==
    /\ pc = "loaded"
    /\ HasCol(df, c_status)
    /\ NRows(df) = 1
    /\ Len(source.rows) = 2
    /\ Cell(df, 1, c_status) = S(t_Cancelled)

\* the six bins of the order sizes, lower bound inclusive, upper bound exclusive
SizeBins == <<[lo |-> 0, hi |-> 50, label |-> bin_micro],
              [lo |-> 50, hi |-> 150, label |-> bin_small],
              [lo |-> 150, hi |-> 300, label |-> bin_medium],
              [lo |-> 300, hi |-> 500, label |-> bin_large],
              [lo |-> 500, hi |-> 1000, label |-> bin_vlarge]>>

InSizeBin(v, b) ==
    IF b <= Len(SizeBins) THEN SizeBins[b].lo <= v /\ v < SizeBins[b].hi ELSE v >= 1000

SizeLabel(b) == IF b <= Len(SizeBins) THEN SizeBins[b].label ELSE bin_enterprise

\* the sum of a sequence of counts
Total(counts) == SumAt(counts, 1..Len(counts))

\* C2: calculate_order_size_segments puts every order of revenue >= 0 in exactly
\* one of the six bins, and the order_count of the segments add up to
\* total_orders, the number of rows of the table.
C2_SegmentsCoverOrders ==
    out[SEGMENTS].st = "ok" =>
        /\ \A i \in 1..NRows(df) :
              LET v == Cell(df, i, c_total_revenue).n
              IN v >= 0 =>
                   /\ Cardinality({b \in 1..6 : InSizeBin(v, b)}) = 1
                   /\ \A b \in 1..6 : InSizeBin(v, b) => segment_order(v) = SizeLabel(b)
        /\ Total([n \in 1..Len(out[SEGMENTS].val) |-> out[SEGMENTS].val[n].order_count])
              = NRows(df)

\* the five repeat segments and the order counts of each
RepeatBins == <<[lo |-> 1, hi |-> 1, label |-> seg_one_time],
                [lo |-> 2, hi |-> 5, label |-> seg_low],
                [lo |-> 6, hi |-> 10, label |-> seg_medium],
                [lo |-> 11, hi |-> 20, label |-> seg_high]>>

InRepeatBin(n, b) ==
    IF b <= Len(RepeatBins) THEN RepeatBins[b].lo <= n /\ n <= RepeatBins[b].hi ELSE n >= 21

RepeatLabel(b) == IF b <= Len(RepeatBins) THEN RepeatBins[b].label ELSE seg_very_high

\* the customers of the table and the numbered orders of each
Customers == {Cell(df, i, c_customerid) : i \in 1..NRows(df)} \ {NaN}

OrdersOf(c) ==
    Cardinality({i \in 1..NRows(df) :
                    Cell(df, i, c_customerid) = c /\ Cell(df, i, c_ordernumber) # NaN})

\* the customers that the returned table counts in the segment of this label
CountedIn(r, label) ==
    IF \E n \in 1..Len(r) : r[n].segment = label
    THEN r[CHOOSE n \in 1..Len(r) : r[n].segment = label].customer_count
    ELSE 0

\* C3: calculate_repeat_behavior puts every customer with order_count >= 1 in
\* exactly one of the five segments, the one whose range holds the count, and the
\* customer_count of the segments add up to unique_customers of
\* calculate_overall_metrics.
C3_RepeatSegments ==
    out[REPEAT].st = "ok" =>
        LET r == out[REPEAT].val
            stage1 == customer_orders(df)
        IN /\ \A c \in Customers :
                 OrdersOf(c) >= 1 =>
                   /\ Cardinality({b \in 1..5 : InRepeatBin(OrdersOf(c), b)}) = 1
                   /\ \A b \in 1..5 :
                        InRepeatBin(OrdersOf(c), b) =>
                          \E n \in 1..Len(stage1) :
                             /\ stage1[n].customerid = c.s
                             /\ stage1[n].segment = RepeatLabel(b)
           /\ \A b \in 1..5 :
                 CountedIn(r, RepeatLabel(b)) >=
                    Cardinality({c \in Customers : OrdersOf(c) >= 1
                                                   /\ InRepeatBin(OrdersOf(c), b)})
           /\ Total([n \in 1..Len(r) |-> r[n].customer_count]) = Cardinality(Customers)
           /\ ~MissingAny(df, OverallNeeds) =>
                 Total([n \in 1..Len(r) |-> r[n].customer_count])
                    = calculate_overall_metrics(df).unique_customers

C3_Witness ==
    /\ out[REPEAT].st = "ok"
    /\ \E c \in Customers : OrdersOf(c) = 21
    /\ \E c \in Customers : OrdersOf(c) = 5
    /\ \E i \in 1..NRows(df) : Cell(df, i, c_customerid) = NaN
    /\ \E i \in 1..NRows(df) : Cell(df, i, c_ordernumber) = NaN

\* C4: on a table without rows calculate_overall_metrics does not raise and its
\* averages per order, avg_revenue_per_order and avg_gm1_per_order, are 0.
C4_EmptyAveragesZero ==
    (out[OVERALL].st # "none" /\ NRows(df) = 0 /\ ~MissingAny(df, OverallNeeds)) =>
        /\ out[OVERALL].st = "ok"
        /\ IsZero(out[OVERALL].val.avg_revenue_per_order)
        /\ IsZero(out[OVERALL].val.avg_gm1_per_order)

\* C5: in the tables of calculate_vendor_performance and
\* calculate_order_size_segments every group whose revenue is 0 has margin_pct 0.
C5_ZeroRevenueMarginZero ==
    \A f \in {VENDORS, SEGMENTS} :
        out[f].st = "ok" =>
            \A n \in 1..Len(out[f].val) :
                out[f].val[n].total_revenue = 0 => IsZero(out[f].val[n].margin_pct)

\* C6: a run of main fails only at the load stage, where no aggregation function
\* has been called; once load_data has returned the run never reaches the except
\* clause.
C6_FailsOnlyAtLoad ==
    (driver = "main" /\ pc = "failed") =>
        /\ error.at = "load_data"
        /\ \A f \in Fns : out[f].st = "none"

\* C7: no aggregation function changes the table it is given: after a call the
\* table of the caller has the columns and the rows that load_data returned.
C7_TableUnchanged ==
    LoadReturned => df = load_data(source)

IsExample == source.readable /\ source.rows = ExampleRows

\* C8 as stated: in the example (A: 100 and 50, B: 850) the orders of A are in
\* the Micro/Small bins and the order of B is in the Enterprise bin.
C8_AsStated ==
    (IsExample /\ out[SEGMENTS].st = "ok") =>
        LET r == out[SEGMENTS].val
        IN /\ \E n \in 1..Len(r) : r[n].order_segment = bin_enterprise /\ r[n].total_revenue = 850
           /\ \A n \in 1..Len(r) : r[n].order_segment \in {bin_micro, bin_small, bin_enterprise}

\* C8: in the example (A: 100 and 50, B: 850) both orders of A are in the Small
\* bin and the order of B is in the V.Large bin.
C8_Example ==
    (IsExample /\ out[SEGMENTS].st = "ok") =>
        LET r == out[SEGMENTS].val
        IN /\ Len(r) = 2
           /\ r[1].order_segment = bin_small /\ r[1].order_count = 2
           /\ r[1].total_revenue = 150
           /\ r[2].order_segment = bin_vlarge /\ r[2].order_count = 1
           /\ r[2].total_revenue = 850

C8_Witness == IsExample /\ out[SEGMENTS].st = "ok" /\ pc = "returned"

SeverityOrder == <<seg_one_time, seg_low, seg_medium, seg_high, seg_very_high>>

Severity(label) == CHOOSE n \in 1..5 : SeverityOrder[n] = label

\* C9: the rows of calculate_repeat_behavior are in the lexical order of their
\* segment labels, and that order is the order of severity: one-time, low,
\* medium, high, very high.
C9_SeverityOrder ==
    out[REPEAT].st = "ok" =>
        LET r == out[REPEAT].val
        IN \A m, n \in 1..Len(r) :
              m < n => /\ StrLess(r[m].segment, r[n].segment)
                       /\ Severity(r[m].segment) < Severity(r[n].segment)

\* C10: the normalization of load_data is idempotent: applied to a table that
\* load_data returned it gives the same table.
C10_Idempotent ==
    pc = "loaded" => Normalize(df) = df

C10_Witness ==
    /\ pc = "loaded"
    /\ df.columns # source.columns
    /\ NRows(df) < Len(source.rows)
    /\ \E i \in 1..NRows(df) : df.rows[i] # source.rows[df.index[i] + 1]

\* the rows of the sheet that the status filter keeps, as index labels
KeptLabels ==
    IF SheetHasStatus
    THEN {i - 1 : i \in {j \in 1..Len(source.rows) : KeptBySheetStatus(j)}}
    ELSE {i - 1 : i \in 1..Len(source.rows)}

\* the cell of the sheet is a number or reads as one
ParsesAsNumber(c) == c.k = "num" \/ (c.k = "str" /\ IsIntegerText(c.s))

NumberOf(c) == IF c.k = "num" THEN c.n ELSE IntegerOfText(c.s)

\* C11: load_data of a readable sheet returns; the table holds every row that
\* the status filter keeps, and in each of the ten numeric columns it has, a
\* cell of the sheet that parses as a number holds that number and any other
\* cell (other text, blank) holds 0.
C11_CoercionKeepsRows ==
    (source.readable /\ pc # "start") =>
        /\ LoadReturned
        /\ pc = "loaded" =>
             /\ Range(df.index) = KeptLabels
             /\ NRows(df) = Cardinality(KeptLabels)
             /\ \A m \in 1..NRows(df) : \A j \in 1..Len(df.columns) :
                  df.columns[j] \in Range(numeric_cols) =>
                     LET c == source.rows[df.index[m] + 1][j]
                     IN df.rows[m][j] = IF ParsesAsNumber(c) THEN N(NumberOf(c)) ELSE N(0)

\* a loaded table where text that is no number and a
\* blank became 0 and numeric text became its number
C11_Witness ==
    /\ pc = "loaded"
    /\ \E m \in 1..NRows(df) : \E j \in 1..Len(df.columns) :
          /\ df.columns[j] \in Range(numeric_cols)
          /\ source.rows[df.index[m] + 1][j].k = "str"
          /\ ~ParsesAsNumber(source.rows[df.index[m] + 1][j])
          /\ df.rows[m][j] = N(0)
    /\ \E m \in 1..NRows(df) : \E j \in 1..Len(df.columns) :
          /\ df.columns[j] \in Range(numeric_cols)
          /\ source.rows[df.index[m] + 1][j] = NaN
          /\ df.rows[m][j] = N(0)
    /\ \E m \in 1..NRows(df) : \E j \in 1..Len(df.columns) :
          /\ df.columns[j] \in Range(numeric_cols)
          /\ source.rows[df.index[m] + 1][j] = S(<<"-", "3">>)
          /\ df.rows[m][j] = N(-3)

\* x is 100 * count / total to the nearest hundredth
IsPct(x, count, total) ==
    /\ x.k = "fin" /\ x.q = 100
    /\ 2 * x.p * total - 20000 * count <= total
    /\ 20000 * count - 2 * x.p * total <= total

RowsWith(name, text) == {i \in 1..NRows(df) : Cell(df, i, name) = S(text)}

\* C12: on a table with a refund_amount column, with or without a
\* delivery_status column, calculate_operational_risk returns: the two rates
\* are 0 when the table has no row and 100 * count / rows to two decimals
\* otherwise; late_deliveries and on_time_deliveries count the rows whose
\* delivery_status is 'red' and 'green', and are 0 without the column.
C12_RiskDegrades ==
    (out[RISK].st # "none" /\ HasCol(df, c_refund_amount)) =>
        /\ out[RISK].st = "ok"
        /\ LET r == out[RISK].val
               total == NRows(df)
               refunds == Cardinality({i \in 1..NRows(df) : Cell(df, i, c_refund_amount).n > 0})
               late == IF HasCol(df, c_delivery_status)
                       THEN Cardinality(RowsWith(c_delivery_status, t_red)) ELSE 0
               on_time == IF HasCol(df, c_delivery_status)
                          THEN Cardinality(RowsWith(c_delivery_status, t_green)) ELSE 0
           IN /\ r.total_orders = total
              /\ r.late_deliveries = late
              /\ r.on_time_deliveries = on_time
              /\ total = 0 => /\ IsZero(r.refund_rate_pct)
                              /\ IsZero(r.late_delivery_rate_pct)
              /\ total > 0 => /\ IsPct(r.refund_rate_pct, refunds, total)
                              /\ IsPct(r.late_delivery_rate_pct, late, total)

\* three orders, one of them refunded, in a table without delivery_status
C12_Witness ==
    /\ out[RISK].st = "ok"
    /\ ~HasCol(df, c_delivery_status)
    /\ NRows(df) = 3
    /\ out[RISK].val.refund_rate_pct = Fin(3333, 100)
    /\ out[RISK].val.late_deliveries = 0
    /\ out[RISK].val.late_delivery_rate_pct = Fin(0, 100)

\* the vendors of the table and the rows of each
VendorsOf == {Cell(df, i, c_vendors).s :
                 i \in {j \in 1..NRows(df) : Cell(df, j, c_vendors).k = "str"}}

LateRowsOf(v) ==
    {i \in 1..NRows(df) : /\ Cell(df, i, c_vendors) = S(v)
                          /\ HasCol(df, c_delivery_status)
                          /\ Cell(df, i, c_delivery_status) = S(t_red)}

\* C13: a table of at most twenty vendors: calculate_vendor_performance
\* returns one row for each vendor of the table and no other row; its
\* late_deliveries is the number of the vendor's rows whose delivery_status is
\* 'red', 0 for a vendor without such a row and 0 for every vendor when the
\* table has no delivery_status column.
C13_LateDeliveries ==
    (out[VENDORS].st = "ok" /\ Cardinality(VendorsOf) <= TopN) =>
        LET r == out[VENDORS].val
        IN /\ Len(r) = Cardinality(VendorsOf)
           /\ \A v \in VendorsOf : \E n \in 1..Len(r) :
                 /\ r[n].vendors = v
                 /\ r[n].late_deliveries = Cardinality(LateRowsOf(v))
           /\ ~HasCol(df, c_delivery_status) =>
                 \A n \in 1..Len(r) : r[n].late_deliveries = 0

\* two vendors, one with a late order and one with an order on time
C13_Witness ==
    /\ out[VENDORS].st = "ok"
    /\ HasCol(df, c_delivery_status)
    /\ Len(out[VENDORS].val) = 2
    /\ \E n \in 1..2 : out[VENDORS].val[n].late_deliveries = 1
    /\ \E n \in 1..2 : /\ out[VENDORS].val[n].late_deliveries = 0
                       /\ out[VENDORS].val[n].order_count = 1

\* C14: whatever calls came before it on the shared table, each aggregation
\* function returns (or raises) what it returns when it is the only call on
\* the table that load_data returned; so calculate_operational_risk, which
\* main calls after calculate_order_size_segments, returns what it would
\* return before it.
C14_Independent ==
    \A f \in Fns : out[f].st # "none" => out[f] = Result(f, load_data(source))

\* all seven functions have returned, calculate_order_size_segments among
\* them, and the shared table is no longer the table that was loaded
C14_Witness ==
    /\ driver = "free"
    /\ \A f \in Fns : out[f].st = "ok"
    /\ df # load_data(source)
    /\ HasCol(df, c_order_segment)

====
